---- MODULE Spec2Model ----
(***************************************************************************)
(* CompanySection (src/src/components/CompanySection.tsx): the change and  *)
(* blur handlers of the company form, the read-only rule of the state and  *)
(* city inputs, and the transport-mode selector, together with the two     *)
(* hooks the component is handed (useVendorBasics, usePincodeLookup).      *)
(*                                                                         *)
(* A JavaScript string is a sequence of one-character strings.             *)
(***************************************************************************)
EXTENDS Integers, Sequences, FiniteSets, TLC

VARIABLES
    basics,         \* vendorBasics.basics: field id -> current value
    geo,            \* pincodeLookup.geo: [pincode, state, city]
    isLoading,      \* pincodeLookup.isLoading
    geoError,       \* pincodeLookup.error
    isManual,       \* pincodeLookup.isManual
    inflight,       \* lookup requests sent and not yet answered
    reqSeq,         \* sequence number of the latest lookup request
    transportMode,  \* the transportMode prop, owned by the parent
    event,          \* the last UI or lookup event: [kind, id, raw, seq]
    calls,          \* the collaborator calls the last handler made
    steps,          \* events so far, counted where a run is cut short
    options,        \* the option elements of the transport-mode select
    effect,         \* the passive effect scheduled: "mount", "update" or "idle"
    everDisabled    \* the options that have been disabled at some time

vars == <<basics, geo, isLoading, geoError, isManual, inflight, reqSeq,
          transportMode, event, calls, steps, options, effect, everDisabled>>

----------------------------------------------------------------------------
(* Bounds of the model.                                                    *)

\* longest arbitrary text in front of the padding of a raw input
MaxHead == 1
\* longest arbitrary text behind the padding of a raw input
MaxTail == 1
\* lookup requests issued in one run
MaxRequests == 3
\* events in one run of the whole form
MaxEvents == 3

----------------------------------------------------------------------------
(* Characters and the JavaScript string operations the handlers use.       *)

LowerLetters ==
    <<"a","b","c","d","e","f","g","h","i","j","k","l","m",
      "n","o","p","q","r","s","t","u","v","w","x","y","z">>

UpperLetters ==
    <<"A","B","C","D","E","F","G","H","I","J","K","L","M",
      "N","O","P","Q","R","S","T","U","V","W","X","Y","Z">>

Range(s) == {s[i] : i \in DOMAIN s}

\* the regex class \d (no u flag): ASCII digits only
Digit == {"0","1","2","3","4","5","6","7","8","9"}

\* the regex class \s, as far as a TLA+ string can spell it
Whitespace == {" ", "\t", "\n", "\r", "\f"}

\* the characters /\D/ leaves in place
KeptDigits == Digit

\* the characters /[^A-Z0-9]/ leaves in place
KeptUpperAlnum == Range(UpperLetters) \cup Digit

\* the characters /[^a-zA-Z\s\-']/ leaves in place
KeptNameChars ==
    Range(LowerLetters) \cup Range(UpperLetters) \cup Whitespace \cup {"-", "'"}

Min(a, b) == IF a < b THEN a ELSE b

\* String.prototype.slice(0, n), n >= 0
Slice(s, n) == SubSeq(s, 1, Min(n, Len(s)))

\* String.prototype.replace(/[^kept]/g, ''): every character outside the
\* negated class is removed
ReplaceAll(s, kept) == SelectSeq(s, LAMBDA c : c \in kept)

\* String.prototype.replace(/[^kept]/, ''): only the first such character
\* is removed
ReplaceFirst(s, kept) ==
    IF \E i \in DOMAIN s : s[i] \notin kept
    THEN LET i == CHOOSE k \in DOMAIN s :
                      s[k] \notin kept /\ \A j \in 1..(k - 1) : s[j] \in kept
         IN  SubSeq(s, 1, i - 1) \o SubSeq(s, i + 1, Len(s))
    ELSE s

\* the upper-case mapping of one character; a sequence, because the German
\* sharp s maps to two characters
UpperOfChar(c) ==
    IF \E i \in DOMAIN LowerLetters : LowerLetters[i] = c
    THEN <<UpperLetters[CHOOSE i \in DOMAIN LowerLetters : LowerLetters[i] = c]>>
    ELSE IF c = "ß" THEN <<"S", "S">> ELSE <<c>>

RECURSIVE ToUpperCase(_)
\* String.prototype.toUpperCase()
ToUpperCase(s) ==
    IF s = <<>> THEN <<>> ELSE UpperOfChar(Head(s)) \o ToUpperCase(Tail(s))

\* JavaScript truthiness of a string-or-undefined value
Undefined == <<"undefined">>
Truthy(v) == v # Undefined /\ v # <<>>

\* v || ''
OrEmpty(v) == IF Truthy(v) THEN v ELSE <<>>

----------------------------------------------------------------------------
(* The calls a handler makes to its collaborators.                         *)

NoId == "-"
Call(fn, id, text) == [fn |-> fn, id |-> id, text |-> text]

----------------------------------------------------------------------------
(* The change handlers, one per input: the calls made for e.target.value   *)
(* = raw.                                                                  *)

FormFields ==
    {"legalCompanyName", "displayName", "companyName", "subVendor", "vendorCode",
     "primaryContactName", "primaryContactPhone", "primaryContactEmail",
     "contactPersonName", "vendorPhoneNumber", "vendorEmailAddress", "gstin",
     "address"}

legalCompanyNameOnChange(raw) ==
    <<Call("setField", "legalCompanyName", Slice(raw, 60))>>

displayNameOnChange(raw) ==
    <<Call("setField", "displayName", Slice(raw, 30))>>

companyNameOnChange(raw) ==
    <<Call("setField", "companyName", Slice(raw, 30))>>

subVendorOnChange(raw) ==
    <<Call("setField", "subVendor", Slice(raw, 20))>>

vendorCodeOnChange(raw) ==
    LET value == Slice(ReplaceAll(ToUpperCase(raw), KeptUpperAlnum), 20)
    IN  <<Call("setField", "vendorCode", value)>>

primaryContactNameOnChange(raw) ==
    LET value == Slice(ReplaceAll(raw, KeptNameChars), 25)
    IN  <<Call("setField", "primaryContactName", value)>>

\* the phone handler cutting to ten characters before it filters
primaryContactPhoneOnChange_SliceFirst(raw) ==
    LET value == ReplaceAll(Slice(raw, 10), KeptDigits)
    IN  <<Call("setField", "primaryContactPhone", value)>>

primaryContactPhoneOnChange(raw) ==
    LET value == Slice(ReplaceAll(raw, KeptDigits), 10)
    IN  <<Call("setField", "primaryContactPhone", value)>>

primaryContactEmailOnChange(raw) ==
    <<Call("setField", "primaryContactEmail", raw)>>

contactPersonNameOnChange(raw) ==
    LET value == Slice(ReplaceAll(raw, KeptNameChars), 30)
    IN  <<Call("setField", "contactPersonName", value)>>

vendorPhoneNumberOnChange(raw) ==
    LET value == Slice(ReplaceAll(raw, KeptDigits), 10)
    IN  <<Call("setField", "vendorPhoneNumber", value)>>

vendorEmailAddressOnChange(raw) ==
    <<Call("setField", "vendorEmailAddress", raw)>>

\* the gstin handler with a regex that lacks the g flag
gstinOnChange_FirstOnly(raw) ==
    LET value == Slice(ReplaceFirst(ToUpperCase(raw), KeptUpperAlnum), 15)
    IN  <<Call("setField", "gstin", value)>>

gstinOnChange(raw) ==
    LET value == Slice(ReplaceAll(ToUpperCase(raw), KeptUpperAlnum), 15)
    IN  <<Call("setField", "gstin", value)>>

\* the pincode handler without the cut to six characters
pincodeOnChange_NoSlice(raw) ==
    LET value == ReplaceAll(raw, KeptDigits)
    IN  <<Call("setPincode", NoId, value)>>

\* the pincode handler submitting only a value that differs from the stored one
pincodeOnChange_SkipSame(raw) ==
    LET value == Slice(ReplaceAll(raw, KeptDigits), 6)
    IN  IF value = geo.pincode THEN <<>> ELSE <<Call("setPincode", NoId, value)>>

pincodeOnChange(raw) ==
    LET value == Slice(ReplaceAll(raw, KeptDigits), 6)
    IN  <<Call("setPincode", NoId, value)>>

stateOnChange(raw) == <<Call("setState", NoId, raw)>>

cityOnChange(raw) == <<Call("setCity", NoId, raw)>>

addressOnChange(raw) ==
    <<Call("setField", "address", Slice(raw, 150))>>

\* the select reporting the option chosen
transportModeOnChange_Selected(selected) ==
    <<Call("onTransportModeChange", selected, <<>>)>>

\* the transport-mode select: the option chosen is not read
transportModeOnChange(selected) == <<Call("onTransportModeChange", "road", <<>>)>>

\* the change handler of the input with the given id
OnChange(id, raw) ==
    CASE id = "legalCompanyName"    -> legalCompanyNameOnChange(raw)
      [] id = "displayName"         -> displayNameOnChange(raw)
      [] id = "companyName"         -> companyNameOnChange(raw)
      [] id = "subVendor"           -> subVendorOnChange(raw)
      [] id = "vendorCode"          -> vendorCodeOnChange(raw)
      [] id = "primaryContactName"  -> primaryContactNameOnChange(raw)
      [] id = "primaryContactPhone" -> primaryContactPhoneOnChange(raw)
      [] id = "primaryContactEmail" -> primaryContactEmailOnChange(raw)
      [] id = "contactPersonName"   -> contactPersonNameOnChange(raw)
      [] id = "vendorPhoneNumber"   -> vendorPhoneNumberOnChange(raw)
      [] id = "vendorEmailAddress"  -> vendorEmailAddressOnChange(raw)
      [] id = "gstin"               -> gstinOnChange(raw)
      [] id = "pincode"             -> pincodeOnChange(raw)
      [] id = "state"               -> stateOnChange(raw)
      [] id = "city"                -> cityOnChange(raw)
      [] id = "address"             -> addressOnChange(raw)

\* the maxLength attribute of the input; 0 where the input has none
MaxLengthAttr(id) ==
    CASE id = "legalCompanyName"    -> 60
      [] id = "displayName"         -> 30
      [] id = "companyName"         -> 30
      [] id = "subVendor"           -> 20
      [] id = "vendorCode"          -> 20
      [] id = "primaryContactName"  -> 25
      [] id = "primaryContactPhone" -> 10
      [] id = "contactPersonName"   -> 30
      [] id = "vendorPhoneNumber"   -> 10
      [] id = "gstin"               -> 15
      [] id = "pincode"             -> 6
      [] id = "address"             -> 150
      [] OTHER                      -> 0

----------------------------------------------------------------------------
(* The blur handlers: the calls made when the input loses focus.           *)

\* every form-store input but gstin validates unconditionally
PlainOnBlur(id) == <<Call("validateField", id, <<>>)>>

\* gstin validating whatever the stored value
gstinOnBlur_Always(b) == <<Call("validateField", "gstin", <<>>)>>

\* gstin validates only when the stored value is truthy
gstinOnBlur(b) ==
    IF Truthy(b.gstin) THEN <<Call("validateField", "gstin", <<>>)>> ELSE <<>>

OnBlur(id, b) == IF id = "gstin" THEN gstinOnBlur(b) ELSE PlainOnBlur(id)

----------------------------------------------------------------------------
(* What the component renders from the hooks' state.                       *)

NoError == "none"

\* readOnly of the state input without the error term
stateReadOnly_ManualOnly(manual, error) == ~manual

\* readOnly of the state input: !isManual && !geoError
stateReadOnly(manual, error) == ~manual /\ error = NoError

\* readOnly of the city input with the negation of the error term lost
cityReadOnly_ErrorNotNegated(manual, error) == ~manual /\ error # NoError

\* readOnly of the city input: !isManual && !geoError
cityReadOnly(manual, error) == ~manual /\ error = NoError

\* the value attribute of each input
InputValue(id, b, g) ==
    CASE id = "gstin"   -> OrEmpty(b.gstin)
      [] id = "pincode" -> OrEmpty(g.pincode)
      [] id = "state"   -> OrEmpty(g.state)
      [] id = "city"    -> OrEmpty(g.city)
      [] OTHER          -> b[id]

----------------------------------------------------------------------------
(* The hooks and the parent, as the component uses them.                   *)

Modes == {"road", "air", "rail", "ship"}

hooks == <<basics, geo, isLoading, geoError, isManual, inflight, reqSeq, transportMode>>

\* what the lookup service answers for a pincode
Resolved(pincode) == [state |-> <<"S">> \o pincode, city |-> <<"C">> \o pincode]

LookupFailedMessage == "lookup failed"

\* vendorBasics.setField
setField(id, text) ==
    /\ basics' = [basics EXCEPT ![id] = text]
    /\ UNCHANGED <<geo, isLoading, geoError, isManual, inflight, reqSeq, transportMode>>

\* vendorBasics.validateField: the outcome is shown, and read by no handler
validateField(id) == UNCHANGED hooks

\* pincodeLookup.setPincode: every edit is submitted, and the mode returns to
\* Auto; whether a standing error is cleared at once is left open
setPincode(text) ==
    /\ geo' = [geo EXCEPT !.pincode = text]
    /\ isManual' = FALSE
    /\ isLoading' = TRUE
    /\ reqSeq' = reqSeq + 1
    /\ inflight' = inflight \cup {[seq |-> reqSeq + 1, pincode |-> text]}
    /\ geoError' \in {geoError, NoError}
    /\ UNCHANGED <<basics, transportMode>>

\* pincodeLookup.setState
setState(text) ==
    /\ geo' = [geo EXCEPT !.state = text]
    /\ UNCHANGED <<basics, isLoading, geoError, isManual, inflight, reqSeq, transportMode>>

\* pincodeLookup.setCity
setCity(text) ==
    /\ geo' = [geo EXCEPT !.city = text]
    /\ UNCHANGED <<basics, isLoading, geoError, isManual, inflight, reqSeq, transportMode>>

\* the parent's onTransportModeChange: the reported mode becomes the prop
onTransportModeChange(mode) ==
    /\ transportMode' = mode
    /\ UNCHANGED <<basics, geo, isLoading, geoError, isManual, inflight, reqSeq>>

\* every response applied, whichever request it answers
IsLatest_Any(req) == TRUE

\* a response is applied only if it answers the latest request
IsLatest(req) == req.seq = reqSeq

\* the lookup for req succeeded
lookupSucceeded(req) ==
    /\ inflight' = inflight \ {req}
    /\ IF IsLatest(req)
       THEN /\ geo' = [geo EXCEPT !.state = Resolved(req.pincode).state,
                                  !.city = Resolved(req.pincode).city]
            /\ isManual' = FALSE
            /\ geoError' = NoError
            /\ isLoading' = FALSE
       ELSE UNCHANGED <<geo, isManual, geoError, isLoading>>
    /\ UNCHANGED <<basics, reqSeq, transportMode>>

\* the lookup for req failed
lookupFailed(req) ==
    /\ inflight' = inflight \ {req}
    /\ IF IsLatest(req)
       THEN /\ isManual' = TRUE
            /\ geoError' = LookupFailedMessage
            /\ isLoading' = FALSE
            /\ UNCHANGED geo
       ELSE UNCHANGED <<geo, isManual, geoError, isLoading>>
    /\ UNCHANGED <<basics, reqSeq, transportMode>>

\* the effect of the calls of one handler
Perform(cs) ==
    IF cs = <<>> THEN UNCHANGED hooks
    ELSE LET c == cs[1] IN
         CASE c.fn = "setField"              -> setField(c.id, c.text)
           [] c.fn = "validateField"         -> validateField(c.id)
           [] c.fn = "setPincode"            -> setPincode(c.text)
           [] c.fn = "setState"              -> setState(c.text)
           [] c.fn = "setCity"               -> setCity(c.text)
           [] c.fn = "onTransportModeChange" -> onTransportModeChange(c.id)

----------------------------------------------------------------------------
(* The option elements of the transport-mode select and the effect that    *)
(* disables them.                                                          *)

Absent == "absent"

\* an option as the JSX renders it: no disabled, aria-disabled or tabindex
RenderedOption ==
    [disabled |-> FALSE, ariaDisabled |-> Absent, tabindex |-> Absent, classes |-> {}]

RenderedOptions == [value \in Modes |-> RenderedOption]

\* the effect disabling every option but the one the prop names
disableNonRoadOptions_AllButCurrent(opts, mode) ==
    [value \in Modes |->
        IF value # mode
        THEN [disabled |-> TRUE, ariaDisabled |-> "true", tabindex |-> "-1",
              classes |-> opts[value].classes \cup {"fc-option-disabled"}]
        ELSE [opts[value] EXCEPT !.disabled = FALSE]]

\* the effect of useEffect(..., [transportMode]): every option whose value is
\* not 'road' is disabled; the select is always rendered, so the ref is set
disableNonRoadOptions(opts, mode) ==
    [value \in Modes |->
        IF value # "road"
        THEN [disabled |-> TRUE, ariaDisabled |-> "true", tabindex |-> "-1",
              classes |-> opts[value].classes \cup {"fc-option-disabled"}]
        ELSE opts[value]]

DisabledIn(opts) == {value \in Modes : opts[value].disabled}

\* a render after a change of state or props: a scheduled effect runs before
\* the commit, the option elements keep the attributes the JSX does not set,
\* and the effect is scheduled again if transportMode has changed
Rerender ==
    /\ options' = IF effect # "idle"
                  THEN disableNonRoadOptions(options, transportMode)
                  ELSE options
    /\ effect' = IF transportMode' # transportMode THEN "update" ELSE "idle"
    /\ everDisabled' = everDisabled \cup DisabledIn(options')

\* the scheduled effect runs after the browser has painted
flushEffect ==
    /\ effect # "idle"
    /\ options' = disableNonRoadOptions(options, transportMode)
    /\ effect' = "idle"
    /\ everDisabled' = everDisabled \cup DisabledIn(options')

Event(kind, id, raw) == [kind |-> kind, id |-> id, raw |-> raw, seq |-> 0]

\* the answer to a lookup request arrives
Answer(kind, req) == [kind |-> kind, id |-> NoId, raw |-> req.pincode, seq |-> req.seq]

\* one UI event: the handler runs and its calls take effect
Handle(kind, id, raw, cs) ==
    /\ event' = Event(kind, id, raw)
    /\ calls' = cs
    /\ Perform(cs)
    /\ IF cs = <<>> THEN UNCHANGED <<options, effect, everDisabled>> ELSE Rerender

----------------------------------------------------------------------------
(* The component after mount.                                              *)

\* the empty form; gstin is optional in the store and may be undefined
EmptyBasics(gstin) == [f \in FormFields |-> IF f = "gstin" THEN gstin ELSE <<>>]

Mounted ==
    /\ geo = [pincode |-> <<>>, state |-> <<>>, city |-> <<>>]
    /\ isLoading = FALSE
    /\ geoError = NoError
    /\ isManual = FALSE
    /\ inflight = {}
    /\ reqSeq = 0
    /\ calls = <<>>
    /\ steps = 0
    /\ options = RenderedOptions
    /\ effect = "mount"
    /\ everDisabled = {}

----------------------------------------------------------------------------
(* Lookup, pincode, state, city and transport-mode events.                 *)

\* pincodes typed or pasted into the pincode input
PincodeInputs ==
    { <<"1","1","0","0","0","1">>,
      <<"4","0","0","0","0","1">>,
      <<"0","0","0","0","0","0">> }

\* text typed into the state or city input
ManualInputs == { <<"G","o","a">> }

EditPincode ==
    /\ reqSeq < MaxRequests
    /\ \E raw \in PincodeInputs : Handle("change", "pincode", raw, OnChange("pincode", raw))

\* a read-only input takes no edit
EditState ==
    /\ ~stateReadOnly(isManual, geoError)
    /\ \E raw \in ManualInputs : Handle("change", "state", raw, OnChange("state", raw))

EditCity ==
    /\ ~cityReadOnly(isManual, geoError)
    /\ \E raw \in ManualInputs : Handle("change", "city", raw, OnChange("city", raw))

SelectMode ==
    \E selected \in Modes :
        Handle("change", "transportMode", <<selected>>, transportModeOnChange(selected))

\* the parent renders the component with another transportMode
RenderMode ==
    /\ \E mode \in Modes : transportMode' = mode
    /\ event' = Event("render", "transportMode", <<>>)
    /\ calls' = <<>>
    /\ UNCHANGED <<basics, geo, isLoading, geoError, isManual, inflight, reqSeq>>
    /\ Rerender

Resolve ==
    \E req \in inflight :
        /\ lookupSucceeded(req)
        /\ event' = Answer("resolved", req)
        /\ calls' = <<>>
        /\ Rerender

Reject ==
    \E req \in inflight :
        /\ lookupFailed(req)
        /\ event' = Answer("rejected", req)
        /\ calls' = <<>>
        /\ Rerender

\* the passive effect runs with no other event in between
RunEffect ==
    /\ flushEffect
    /\ event' = Event("effect", "transportMode", <<effect>>)
    /\ calls' = <<>>
    /\ UNCHANGED hooks

Init ==
    /\ Mounted
    /\ basics \in {EmptyBasics(Undefined), EmptyBasics(<<>>)}
    /\ transportMode \in Modes
    /\ event = Event("mount", NoId, <<>>)

PincodeChange == EditPincode /\ UNCHANGED steps
StateChange == EditState /\ UNCHANGED steps
CityChange == EditCity /\ UNCHANGED steps
TransportChange == SelectMode /\ UNCHANGED steps
PropChange == RenderMode /\ UNCHANGED steps
LookupResolved == Resolve /\ UNCHANGED steps
LookupRejected == Reject /\ UNCHANGED steps
EffectRuns == RunEffect /\ UNCHANGED steps

Next ==
    \/ PincodeChange
    \/ StateChange
    \/ CityChange
    \/ TransportChange
    \/ PropChange
    \/ LookupResolved
    \/ LookupRejected
    \/ EffectRuns

Spec == Init /\ [][Next]_vars

----------------------------------------------------------------------------
(* One input, one raw text: the change handler runs on the text, then on   *)
(* its own result.                                                         *)

Alphabet == {"7", "a", " ", "\t", "ß"}

\* the characters a long run is made of
PadChars == {"7", "a", "ß"}

Texts(n) == UNION {[1..k -> Alphabet] : k \in 0..n}

Pad(c, n) == [i \in 1..n |-> c]

\* the pad lengths that bring a text to the input's maxLength
PadLengths(id) ==
    IF MaxLengthAttr(id) = 0 THEN {0} ELSE {0, MaxLengthAttr(id) - 1}

Examples ==
    { <<"a","b","-","1","2","c","d">>,
      <<"1","2","a","3","-","4","5","6","b","7","8","9","0","1","2","3">>,
      <<"2","2","a","a","a","a","a","0","0","0","0","a","1","z","5","e","x","t","r","a">> }

RawInputs(id) ==
    {h \o Pad(c, n) \o t :
        h \in Texts(MaxHead), t \in Texts(MaxTail), c \in PadChars, n \in PadLengths(id)}
    \cup Examples

MaskedInputs == FormFields \cup {"pincode"}

InitMask ==
    /\ Mounted
    /\ basics = EmptyBasics(<<>>)
    /\ transportMode = "road"
    /\ event \in UNION {{Event("typed", id, raw) : raw \in RawInputs(id)} :
                            id \in MaskedInputs}

MaskChange ==
    /\ event.kind = "typed"
    /\ Handle("change", event.id, event.raw, OnChange(event.id, event.raw))
    /\ UNCHANGED steps

\* a change event that reports the value the handler has just handed on
MaskRechange ==
    /\ event.kind = "change"
    /\ Handle("rechange", event.id, calls[1].text, OnChange(event.id, calls[1].text))
    /\ UNCHANGED steps

NextMask ==
    \/ MaskChange
    \/ MaskRechange

SpecMask == InitMask /\ [][NextMask]_vars

----------------------------------------------------------------------------
(* The whole form, a few events deep: every input's change handler, every  *)
(* form-store input's blur handler, and the lookup's answers.              *)

\* text typed or pasted into a form-store input
FormInputs == { <<>>, <<"a", "7">> }

\* a run is cut after MaxEvents events
Budget == steps < MaxEvents
Tick == steps' = steps + 1

FormChange ==
    /\ Budget
    /\ \E id \in FormFields, raw \in FormInputs :
           Handle("change", id, raw, OnChange(id, raw))
    /\ Tick

FormBlur ==
    /\ Budget
    /\ \E id \in FormFields :
           Handle("blur", id, InputValue(id, basics, geo), OnBlur(id, basics))
    /\ Tick

FormPincodeChange == Budget /\ EditPincode /\ Tick
FormStateChange == Budget /\ EditState /\ Tick
FormCityChange == Budget /\ EditCity /\ Tick
FormTransportChange == Budget /\ SelectMode /\ Tick
FormLookupResolved == Budget /\ Resolve /\ Tick
FormLookupRejected == Budget /\ Reject /\ Tick

NextForm ==
    \/ FormChange
    \/ FormBlur
    \/ FormPincodeChange
    \/ FormStateChange
    \/ FormCityChange
    \/ FormTransportChange
    \/ FormLookupResolved
    \/ FormLookupRejected

SpecForm == Init /\ [][NextForm]_vars

----------------------------------------------------------------------------
(* Properties of the change handlers (SpecMask).                           *)

IsChange == event.kind \in {"change", "rechange"}

\* the value the last handler handed to its setter
Handed == calls[1].text

Letters == Range(LowerLetters) \cup Range(UpperLetters)

DigitFields == {"primaryContactPhone", "vendorPhoneNumber", "pincode"}
UpperAlnumFields == {"vendorCode", "gstin"}
NameFields == {"primaryContactName", "contactPersonName"}

\* the length each field's value is held to
StatedMaxLength(id) ==
    CASE id \in {"primaryContactPhone", "vendorPhoneNumber"} -> 10
      [] id = "pincode"            -> 6
      [] id = "vendorCode"         -> 20
      [] id = "gstin"              -> 15
      [] id = "primaryContactName" -> 25
      [] id = "contactPersonName"  -> 30
      [] id = "legalCompanyName"   -> 60
      [] id \in {"displayName", "companyName"} -> 30
      [] id = "subVendor"          -> 20
      [] id = "address"            -> 150

\* the setter each input's change handler calls once
SetterCalled(id) ==
    /\ Len(calls) = 1
    /\ calls[1].fn = (IF id = "pincode" THEN "setPincode" ELSE "setField")
    /\ calls[1].id = (IF id = "pincode" THEN NoId ELSE id)

\* C1: for the digit-only fields and the uppercase-alphanumeric fields, the
\* value handed to the setter holds only allowed characters (0-9; A-Z and
\* 0-9) and is no longer than the field's maxLength (10, 10, 6, 20, 15).
C1_AllowedCharsAndLength ==
    (IsChange /\ event.id \in DigitFields \cup UpperAlnumFields) =>
        /\ SetterCalled(event.id)
        /\ Len(Handed) <= StatedMaxLength(event.id)
        /\ event.id \in DigitFields => Range(Handed) \subseteq Digit
        /\ event.id \in UpperAlnumFields =>
               Range(Handed) \subseteq (Range(UpperLetters) \cup Digit)

\* a raw pincode longer than six digits with a disallowed character in it
C1_Witness ==
    /\ event.kind = "change"
    /\ event.id = "pincode"
    /\ \E i \in DOMAIN event.raw : event.raw[i] \notin Digit
    /\ Len(SelectSeq(event.raw, LAMBDA c : c \in Digit)) > 6
    /\ Len(Handed) = 6

\* C2: for the name fields the value handed to setField holds only letters,
\* the space character, hyphen and apostrophe, and is no longer than 25
\* (primaryContactName) or 30 (contactPersonName), whatever whitespace the
\* raw input holds.
C2_NameCharsOnly ==
    (IsChange /\ event.id \in NameFields) =>
        /\ SetterCalled(event.id)
        /\ Len(Handed) <= StatedMaxLength(event.id)
        /\ Range(Handed) \subseteq (Letters \cup {" ", "-", "'"})

\* the characters a field's filter removes
Removed(id, c) ==
    CASE id \in DigitFields      -> c \notin Digit
      [] id \in UpperAlnumFields -> c \notin (Range(UpperLetters) \cup Digit)
      [] id \in NameFields       -> c \notin (Letters \cup Whitespace \cup {"-", "'"})

CaseTransform(id, s) == IF id \in UpperAlnumFields THEN ToUpperCase(s) ELSE s

RECURSIVE FirstKept(_, _, _)
\* the first n characters of s that the field's filter keeps, read left to right
FirstKept(id, s, n) ==
    IF n = 0 \/ s = <<>> THEN <<>>
    ELSE IF Removed(id, Head(s)) THEN FirstKept(id, Tail(s), n)
    ELSE <<Head(s)>> \o FirstKept(id, Tail(s), n - 1)

\* the filter applied to the first maxLength characters
CutThenFiltered(id, s) ==
    FirstKept(id, SubSeq(s, 1, Min(StatedMaxLength(id), Len(s))), StatedMaxLength(id))

MaskedFields == DigitFields \cup UpperAlnumFields \cup NameFields

\* C3: for every masked field the sanitized value is the case-transformed
\* raw input with the filtered characters removed and only then cut to
\* maxLength; where cutting first would give another value, the result is
\* not that value.
C3_FilterThenTruncate ==
    (IsChange /\ event.id \in MaskedFields) =>
        LET s == CaseTransform(event.id, event.raw) IN
        /\ SetterCalled(event.id)
        /\ Handed = FirstKept(event.id, s, StatedMaxLength(event.id))
        /\ CutThenFiltered(event.id, s) # FirstKept(event.id, s, StatedMaxLength(event.id))
               => Handed # CutThenFiltered(event.id, s)

\* the example: primaryContactPhone on "12a3-456b7890123" gives "1234567890"
C3_Witness ==
    /\ event.kind = "change"
    /\ event.id = "primaryContactPhone"
    /\ event.raw = <<"1","2","a","3","-","4","5","6","b","7","8","9","0","1","2","3">>
    /\ Handed = <<"1","2","3","4","5","6","7","8","9","0">>
    /\ CutThenFiltered(event.id, event.raw) # Handed

\* C4: masking is idempotent: the handler applied to the value it has just
\* handed on hands on the same value, for every field.
C4_Idempotent ==
    event.kind = "rechange" =>
        /\ SetterCalled(event.id)
        /\ Handed = event.raw

\* the handler ran again on a value that the first run had cut to maxLength
C4_Witness ==
    /\ event.kind = "rechange"
    /\ event.id \in MaskedFields
    /\ Len(event.raw) = StatedMaxLength(event.id)
    /\ Handed = event.raw

----------------------------------------------------------------------------
(* Properties of the transport-mode selector and of the pincode lookup     *)
(* (Spec).                                                                 *)

\* C5: whatever option a selection-change event carries, the value reported
\* through onTransportModeChange is 'road'; no event reports air, rail or
\* ship.
C5_ReportsRoad ==
    /\ \A i \in DOMAIN calls :
           calls[i].fn = "onTransportModeChange" => calls[i].id = "road"
    /\ (event.kind = "change" /\ event.id = "transportMode") =>
           calls = <<Call("onTransportModeChange", "road", <<>>)>>

\* the user picked air, and road was reported
C5_Witness ==
    /\ event.kind = "change"
    /\ event.id = "transportMode"
    /\ event.raw = <<"air">>
    /\ calls # <<>>
    /\ calls[1].id = "road"

\* C6: whenever the lookup reports an error, the state and city inputs are
\* not read-only.
C6_ErrorMakesWritable ==
    geoError # NoError =>
        /\ ~stateReadOnly(isManual, geoError)
        /\ ~cityReadOnly(isManual, geoError)

\* an error still standing while the mode is Auto
C6_Witness ==
    /\ geoError # NoError
    /\ ~isManual
    /\ ~stateReadOnly(isManual, geoError)

\* C7: the mode starts in Auto; the failure of the latest lookup puts it in
\* Manual with state and city writable; every pincode edit returns it to
\* Auto with the new lookup pending.
C7_GeoMode ==
    /\ event.kind = "mount" => ~isManual
    /\ (event.kind = "rejected" /\ event.seq = reqSeq) =>
           /\ isManual
           /\ ~stateReadOnly(isManual, geoError)
           /\ ~cityReadOnly(isManual, geoError)
    /\ (event.kind = "change" /\ event.id = "pincode") =>
           /\ ~isManual
           /\ isLoading
           /\ [seq |-> reqSeq, pincode |-> geo.pincode] \in inflight

\* a pincode edit after a failed lookup: Auto again, the new lookup pending
C7_Witness ==
    /\ event.kind = "change"
    /\ event.id = "pincode"
    /\ reqSeq >= 2
    /\ geoError # NoError
    /\ ~isManual
    /\ isLoading

\* C8: only the answer to the latest submitted pincode is applied to state
\* and city: an answer to an earlier request changes neither, and once the
\* latest lookup has succeeded state and city are its result.
C8_LatestOnly ==
    /\ [](( ~isLoading /\ geoError = NoError /\ reqSeq > 0) =>
            /\ geo.state = Resolved(geo.pincode).state
            /\ geo.city = Resolved(geo.pincode).city)
    /\ [][(event'.kind \in {"resolved", "rejected"} /\ event'.seq # reqSeq) =>
            /\ geo' = geo
            /\ isManual' = isManual
            /\ geoError' = geoError]_vars

\* the answer to an earlier pincode arrived after the latest one was applied
C8_Witness ==
    /\ event.kind = "resolved"
    /\ event.seq < reqSeq
    /\ event.raw # geo.pincode
    /\ inflight = {}
    /\ ~isLoading
    /\ geoError = NoError
    /\ geo.state = Resolved(geo.pincode).state

\* C9: with no lookup error active both inputs are read-only, and a user
\* edit of state or city happens only under an active lookup error and
\* leaves the mode as it was.
C9_WritableOnlyOnError ==
    /\ [](geoError = NoError =>
            /\ stateReadOnly(isManual, geoError)
            /\ cityReadOnly(isManual, geoError))
    /\ [][(event'.kind = "change" /\ event'.id \in {"state", "city"}) =>
            /\ geoError # NoError
            /\ isManual' = isManual]_vars

\* the error is gone after the user had typed a state by hand
C9_Witness ==
    /\ geoError = NoError
    /\ geo.state \in ManualInputs
    /\ stateReadOnly(isManual, geoError)
    /\ cityReadOnly(isManual, geoError)

----------------------------------------------------------------------------
(* Properties of validation (SpecForm).                                    *)

Validates(id) == calls = <<Call("validateField", id, <<>>)>>

NoValidation == \A i \in DOMAIN calls : calls[i].fn # "validateField"

\* C10 as stated: no change event calls validateField, and every blur of a
\* form-store field calls validateField for exactly that field, whatever
\* the field's value.
C10_BlurAlwaysValidates ==
    /\ event.kind = "change" => NoValidation
    /\ event.kind = "blur" => Validates(event.id)

\* C10 amended: no change event calls validateField; every blur of a
\* form-store field other than gstin calls validateField for exactly that
\* field; a blur of gstin calls validateField for gstin when the stored
\* gstin is non-empty and calls nothing when it is empty or undefined.
C10_BlurValidatesExceptEmptyGstin ==
    /\ event.kind = "change" => NoValidation
    /\ (event.kind = "blur" /\ event.id # "gstin") => Validates(event.id)
    /\ (event.kind = "blur" /\ event.id = "gstin") =>
           IF basics.gstin \in {Undefined, <<>>} THEN calls = <<>>
           ELSE Validates("gstin")

\* a blur of gstin after a change had emptied it
C10_Witness ==
    /\ event.kind = "blur"
    /\ event.id = "gstin"
    /\ basics.gstin = <<>>
    /\ steps >= 2
    /\ calls = <<>>

----------------------------------------------------------------------------
(* Properties of the option elements (Spec).                               *)

NonRoad == Modes \ {"road"}

FullyDisabled(value) ==
    /\ options[value].disabled
    /\ options[value].ariaDisabled = "true"
    /\ options[value].tabindex = "-1"

OptionsPinned ==
    /\ \A value \in NonRoad : FullyDisabled(value)
    /\ ~options["road"].disabled
    /\ \A value \in everDisabled : options[value].disabled

\* C11 as stated: from mount onward, after any sequence of prop changes and
\* selection events, air, rail and ship are disabled (disabled,
\* aria-disabled, tabindex -1), road is not, and an option once disabled is
\* never enabled again.
C11_DisabledFromMount == OptionsPinned

\* C11 amended: the same from the first run of the effect onward; between
\* the first commit and that run the options are as rendered, enabled.
C11_DisabledFromMountEffect == effect # "mount" => OptionsPinned

\* the prop has changed to air, the effect has run again, and air is still
\* disabled
C11_Witness ==
    /\ transportMode = "air"
    /\ effect = "idle"
    /\ event.kind = "effect"
    /\ event.raw = <<"update">>
    /\ everDisabled = NonRoad
    /\ OptionsPinned

====
